---- MODULE Spec2Model ----
(***************************************************************************)
(* Model of the Cohere processor: configuration parsing and validation     *)
(* (config.go), the processor lifecycle Configure / Process (processor.go) *)
(* and the embed request handler with its backoff retry loop (embed part   *)
(* of config.go, processEmbedModel) and the command request handler        *)
(* (processCommandModel).                                                  *)
(*                                                                         *)
(* Strings that the code searches with strings.Contains (model,            *)
(* modelVersion) are sequences of one-character strings, so that Contains  *)
(* is a real substring search.  Strings the code only compares or looks up *)
(* in a table (inputType, embeddingTypes entries, error texts) are TLA+    *)
(* strings.  Durations are integers in milliseconds.  The float64 fields   *)
(* backoffRetry.count and backoffRetry.factor are integers counting        *)
(* halves, so that -0.5 and 0.5 are values of the model: Half(n) is the    *)
(* whole number n.                                                         *)
(***************************************************************************)
EXTENDS Integers, Sequences, FiniteSets, TLC

VARIABLES
    phase,      \* "new" | "configured" | "rejected": outcome of Configure
    rawCfg,     \* the raw key/value configuration handed to Configure
    config,     \* Processor.config, the parsed ProcessorConfig
    cfgErr,     \* the error Configure returned (NoErr when it returned nil)
    attempt,    \* Processor.backoffCfg: the attempt counter of backoff.Backoff
    pc,         \* position of Process: "idle" | "Calling" | "RetryWait" | "Chat" |
                \* "Rerank" | "done"
    records,    \* the batch handed to the running Process invocation
    idx,        \* index (1-based) of the record the outer loop is at
    record,     \* the loop variable `record`: a copy of records[idx], updated by setField
    out,        \* the slice `out` / the list Process returned when pc = "done"
    duration,   \* the local `duration` of the last vendor call
    ctxDone,    \* the invocation's context has been cancelled
    timerFired, \* the channel of time.After(duration) is ready
    calls,      \* history: vendor calls made for the current record in this invocation
    waits,      \* history: the durations of the retry waits entered for the current record
    okCalls,    \* history: successful vendor calls for the current record
    startAttempt, \* history: value of the attempt counter when the current record started
    last,       \* history: the branch of the handler taken by the last step
    lastOutcome, \* history: what the last vendor call and field write returned
    invocations, \* history: number of Process invocations started
    totalCalls, \* history: vendor calls made in this invocation, all records together
    waitsSinceOk, \* history: retry waits entered since the last successful vendor call
    delays,     \* history: the values Duration() returned since the counter was last zero
    firstDelay  \* history: the first value Duration() returned (0 before the first call)

vars == <<phase, rawCfg, config, cfgErr, attempt, pc, records, idx, record, out,
          duration, ctxDone, timerFired, calls, waits, okCalls, startAttempt,
          last, lastOutcome, invocations, totalCalls, waitsSinceOk, delays,
          firstDelay>>

cfgVars  == <<phase, rawCfg, config, cfgErr>>
histVars == <<calls, waits, okCalls, startAttempt, lastOutcome, totalCalls,
              waitsSinceOk, delays, firstDelay>>

(***************************************************************************)
(* Bounds of the model.                                                    *)
(***************************************************************************)
MaxRetryCount  == 2   \* backoffRetry.count is drawn from -1..MaxRetryCount
MaxTypes       == 2   \* embeddingTypes lists have at most MaxTypes entries
MaxBatch       == 2   \* a batch holds at most MaxBatch records
MaxCalls       == 3   \* vendor calls modelled per Process invocation
MaxInvocations == 2   \* Process invocations modelled per processor
MaxDelayCalls  == 3   \* Duration() calls between two resets of the backoff policy

(***************************************************************************)
(* Strings searched by strings.Contains.                                   *)
(***************************************************************************)
CommandModel == <<"c","o","m","m","a","n","d">>
EmbedModel   == <<"e","m","b","e","d">>
RerankModel  == <<"r","e","r","a","n","k">>
V3           == <<"v","3">>
UnknownModel == <<"c","h","a","t">>

\* strings.Contains(s, sub)
Contains(s, sub) ==
    \E i \in 0..(Len(s) - Len(sub)) : SubSeq(s, i + 1, i + Len(sub)) = sub

\* the float64 n, counted in halves
Half(n) == 2 * n

Nil   == [nil |-> TRUE]      \* a nil pointer
NoKey == <<>>                 \* a configuration key that is not supplied
Key(v) == <<v>>               \* a configuration key supplied with value v
NoErr == [stage |-> "none", text |-> "", arg |-> <<>>]

allowedEmbeddingTypes == {"float", "int8", "uint8", "binary", "ubinary"}
allowedInputTypes ==
    {"search_document", "search_query", "classification", "clustering", "image"}

(***************************************************************************)
(* Raw configurations handed to Configure.  A key that is not supplied is  *)
(* NoKey.  Three families are drawn: one varies the model, the model version *)
(* and the embedConfig keys with the backoff keys left at their defaults,  *)
(* one varies the backoff keys of a valid embed configuration, one sets a   *)
(* response path other than the default.                                   *)
(***************************************************************************)
Models        == {CommandModel, EmbedModel, RerankModel, UnknownModel}
ModelVersions == {CommandModel, EmbedModel, EmbedModel \o <<"-">> \o V3, V3}
InputTypeInputs == {NoKey, Key("search_document"), Key("invalid")}
TypeInputs      == {"float", "invalid", "int16"}

RECURSIVE SeqsOfLen(_, _)
SeqsOfLen(S, n) ==
    IF n = 0 THEN {<<>>}
    ELSE {Append(q, x) : q \in SeqsOfLen(S, n - 1), x \in S}

SeqsUpTo(S, n) == UNION {SeqsOfLen(S, k) : k \in 0..n}

EmbeddingTypesInputs ==
    {NoKey} \cup {Key(l) : l \in SeqsUpTo(TypeInputs, MaxTypes) \ {<<>>}}

ValidationFamily ==
    [apiKey : {"api-key"}, model : Models, modelVersion : ModelVersions,
     count : {NoKey}, factor : {NoKey}, min : {NoKey}, max : {NoKey},
     responseBody : {NoKey},
     inputType : InputTypeInputs, embeddingTypes : EmbeddingTypesInputs]

BackoffFamily ==
    [apiKey : {"", "api-key"}, model : {EmbedModel},
     modelVersion : {EmbedModel \o <<"-">> \o V3},
     count : {NoKey, Key(-1)} \cup {Key(Half(n)) : n \in -1..MaxRetryCount},
     factor : {NoKey, Key(-1), Key(0), Key(Half(1))},
     min : {NoKey}, max : {NoKey, Key(150)}, responseBody : {NoKey},
     inputType : {Key("search_document")}, embeddingTypes : {Key(<<"float">>)}]

PathFamily ==
    [apiKey : {"api-key"}, model : {EmbedModel}, modelVersion : {EmbedModel},
     count : {NoKey}, factor : {NoKey}, min : {NoKey}, max : {NoKey},
     responseBody : {Key(".Key")},
     inputType : {NoKey}, embeddingTypes : {Key(<<"float">>)}]

RawConfigs == ValidationFamily \cup BackoffFamily \cup PathFamily

\* the configurations of the backoff policy: factors 0.5, 1, 1.5 and the default 2,
\* a min below and a min above the smaller max
PolicyFamily ==
    [apiKey : {"api-key"}, model : {EmbedModel},
     modelVersion : {EmbedModel \o <<"-">> \o V3},
     count : {NoKey}, factor : {NoKey, Key(1), Key(Half(1)), Key(3)},
     min : {Key(160), Key(400)}, max : {Key(150), Key(1000)}, responseBody : {NoKey},
     inputType : {Key("search_document")}, embeddingTypes : {Key(<<"float">>)}]

\* the `default:"..."` struct tags of ProcessorConfig
DefaultBackoffRetryCount  == 0
DefaultBackoffRetryFactor == 2
DefaultBackoffRetryMin    == 100
DefaultBackoffRetryMax    == 5000
DefaultResponseBodyRef    == ".Payload.After"

OrDefault(v, d) == IF v = NoKey THEN d ELSE v[1]

(***************************************************************************)
(* sdk.ParseConfig(ctx, cfg, &p.config, ProcessorConfig{}.Parameters()):   *)
(* fills the struct from the keys, applies the defaults and the `validate` *)
(* struct tags (apiKey required, backoffRetry.count gt=-1,                 *)
(* backoffRetry.factor gt=0).  EmbedConfig is a pointer: it is nil exactly *)
(* when no embedConfig.* key is supplied (as the Configure tests show:     *)
(* without keys validation reports the missing embedConfig, with only      *)
(* embedConfig.inputType it goes on to the later rules).                   *)
(***************************************************************************)
ParsedConfig(raw) ==
    [Model              |-> raw.model,
     ModelVersion       |-> raw.modelVersion,
     APIKey             |-> raw.apiKey,
     BackoffRetryCount  |-> OrDefault(raw.count, Half(DefaultBackoffRetryCount)),
     BackoffRetryFactor |-> OrDefault(raw.factor, Half(DefaultBackoffRetryFactor)),
     BackoffRetryMin    |-> OrDefault(raw.min, DefaultBackoffRetryMin),
     BackoffRetryMax    |-> OrDefault(raw.max, DefaultBackoffRetryMax),
     ResponseBodyRef    |-> OrDefault(raw.responseBody, DefaultResponseBodyRef),
     EmbedConfig        |->
        IF raw.inputType = NoKey /\ raw.embeddingTypes = NoKey THEN Nil
        ELSE [InputType      |-> OrDefault(raw.inputType, ""),
              EmbeddingTypes |-> OrDefault(raw.embeddingTypes, <<>>)]]

\* the keys whose `validate` struct tag is violated
TagViolations(c) ==
    (IF c.APIKey = "" THEN <<"apiKey">> ELSE <<>>)
    \o (IF c.BackoffRetryCount > Half(-1) THEN <<>> ELSE <<"backoffRetry.count">>)
    \o (IF c.BackoffRetryFactor > 0 THEN <<>> ELSE <<"backoffRetry.factor">>)

ParseConfig(raw) ==
    LET c == ParsedConfig(raw)
        bad == TagViolations(c)
    IN  [cfg |-> c,
         err |-> IF bad = <<>> THEN NoErr
                 ELSE [stage |-> "parse", text |-> "config invalid", arg |-> bad]]

ValErr(text, arg) == [stage |-> "validate", text |-> text, arg |-> arg]
NoArg == <<>>

\* index of the first entry of the list that is not an allowed embedding type (0: none)
FirstInvalidType(types) ==
    LET bad == {i \in 1..Len(types) : types[i] \notin allowedEmbeddingTypes}
    IN  IF bad = {} THEN 0 ELSE CHOOSE i \in bad : \A j \in bad : i <= j

\* mutant of validateEmbedModel: the entries of embeddingTypes are not looked up
validateEmbedModelNoLookup(c) ==
    IF ~Contains(c.ModelVersion, EmbedModel)
    THEN ValErr("modelVersion does not belong to provided model", NoArg)
    ELSE IF c.EmbedConfig = Nil
    THEN ValErr("embedConfig is required when model is 'embed'", NoArg)
    ELSE IF Contains(c.ModelVersion, V3)
            /\ (c.EmbedConfig.InputType = ""
                \/ c.EmbedConfig.InputType \notin allowedInputTypes)
    THEN ValErr("invalid or missing inputType for v3 models", <<c.EmbedConfig.InputType>>)
    ELSE IF Len(c.EmbedConfig.EmbeddingTypes) = 0
    THEN ValErr("atleast one embeddingType must be provided", NoArg)
    ELSE NoErr

\* mutant of validateEmbedModel: embeddingTypes is checked before inputType
validateEmbedModelTypesFirst(c) ==
    IF ~Contains(c.ModelVersion, EmbedModel)
    THEN ValErr("modelVersion does not belong to provided model", NoArg)
    ELSE IF c.EmbedConfig = Nil
    THEN ValErr("embedConfig is required when model is 'embed'", NoArg)
    ELSE IF Len(c.EmbedConfig.EmbeddingTypes) = 0
    THEN ValErr("atleast one embeddingType must be provided", NoArg)
    ELSE IF Contains(c.ModelVersion, V3)
            /\ (c.EmbedConfig.InputType = ""
                \/ c.EmbedConfig.InputType \notin allowedInputTypes)
    THEN ValErr("invalid or missing inputType for v3 models", <<c.EmbedConfig.InputType>>)
    ELSE IF FirstInvalidType(c.EmbedConfig.EmbeddingTypes) # 0
    THEN ValErr("invalid embeddingType",
                <<c.EmbedConfig.EmbeddingTypes[FirstInvalidType(c.EmbedConfig.EmbeddingTypes)]>>)
    ELSE NoErr

\* mutant of validateEmbedModel: a missing embedConfig is let through
validateEmbedModelNilAllowed(c) ==
    IF ~Contains(c.ModelVersion, EmbedModel)
    THEN ValErr("modelVersion does not belong to provided model", NoArg)
    ELSE IF c.EmbedConfig = Nil
    THEN NoErr
    ELSE IF Contains(c.ModelVersion, V3)
            /\ (c.EmbedConfig.InputType = ""
                \/ c.EmbedConfig.InputType \notin allowedInputTypes)
    THEN ValErr("invalid or missing inputType for v3 models", <<c.EmbedConfig.InputType>>)
    ELSE IF Len(c.EmbedConfig.EmbeddingTypes) = 0
    THEN ValErr("atleast one embeddingType must be provided", NoArg)
    ELSE IF FirstInvalidType(c.EmbedConfig.EmbeddingTypes) # 0
    THEN ValErr("invalid embeddingType",
                <<c.EmbedConfig.EmbeddingTypes[FirstInvalidType(c.EmbedConfig.EmbeddingTypes)]>>)
    ELSE NoErr

\* validateEmbedModel: the rules of the embed model, the first violated one is returned
validateEmbedModel(c) ==
    IF ~Contains(c.ModelVersion, EmbedModel)
    THEN ValErr("modelVersion does not belong to provided model", NoArg)
    ELSE IF c.EmbedConfig = Nil
    THEN ValErr("embedConfig is required when model is 'embed'", NoArg)
    ELSE IF Contains(c.ModelVersion, V3)
            /\ (c.EmbedConfig.InputType = ""
                \/ c.EmbedConfig.InputType \notin allowedInputTypes)
    THEN ValErr("invalid or missing inputType for v3 models", <<c.EmbedConfig.InputType>>)
    ELSE IF Len(c.EmbedConfig.EmbeddingTypes) = 0
    THEN ValErr("atleast one embeddingType must be provided", NoArg)
    ELSE IF FirstInvalidType(c.EmbedConfig.EmbeddingTypes) # 0
    THEN ValErr("invalid embeddingType",
                <<c.EmbedConfig.EmbeddingTypes[FirstInvalidType(c.EmbedConfig.EmbeddingTypes)]>>)
    ELSE NoErr

\* ProcessorConfig.Validate (config.go)
Validate(c) ==
    IF c.Model = EmbedModel THEN validateEmbedModel(c) ELSE NoErr

\* ProcessorConfig.Validate as written inline in processor.go (the earlier form of
\* the same method: no modelVersion rule, embeddingTypes checked before inputType,
\* inputType only required, not looked up)
ValidateInline(c) ==
    IF c.Model = EmbedModel
    THEN IF c.EmbedConfig = Nil
         THEN ValErr("embedConfig is required when model is 'embed'", NoArg)
         ELSE IF Len(c.EmbedConfig.EmbeddingTypes) = 0
         THEN ValErr("atleast one embeddingType must be provided", NoArg)
         ELSE IF Contains(c.ModelVersion, V3) /\ c.EmbedConfig.InputType = ""
         THEN ValErr("inputType required for embedding models v3 and higher", NoArg)
         ELSE IF FirstInvalidType(c.EmbedConfig.EmbeddingTypes) # 0
         THEN ValErr("invalid embeddingType",
                     <<c.EmbedConfig.EmbeddingTypes[FirstInvalidType(c.EmbedConfig.EmbeddingTypes)]>>)
         ELSE NoErr
    ELSE NoErr

(***************************************************************************)
(* Records, vendor outcomes and results.                                   *)
(***************************************************************************)
Payloads   == {"a"}                 \* texts of Payload.After
Embeddings == {"e1", "e2"}          \* what the vendor returns for a text

\* a record: Position identifies it, After and Key are the fields a response
\* path of the model can address
Rec(i, text) == [Position |-> i, After |-> text, Key |-> "k"]
Batches == UNION {{[i \in 1..n |-> Rec(i, f[i])] : f \in [1..n -> Payloads]} : n \in 0..MaxBatch}

RetryableErrors    == {"GatewayTimeoutError", "InternalServerError", "ServiceUnavailableError"}
NonRetryableErrors == {"BadRequestError", "TooManyRequestsError"}
VendorErrors       == RetryableErrors \cup NonRetryableErrors
CtxErr             == "context canceled"
WriteErrors        == {"error reference resolver", "error reference set"}

\* outcome of one vendor call: resp is the returned value, err is "" on success
VendorOutcomes ==
    [resp : Embeddings, err : {""}] \cup [resp : {""}, err : VendorErrors]
\* outcome of one chat (or rerank) call: the response text, or one of two errors,
\* one of a class the embed handler retries and one it does not
Responses    == {"t1"}
ChatErrors   == {"GatewayTimeoutError", "BadRequestError"}
ChatOutcomes == [resp : Responses, err : {""}] \cup [resp : {""}, err : ChatErrors]
\* outcome of resolving / assigning the response field: "" when both succeed
FieldOutcomes == {""} \cup WriteErrors

SingleRecord(r) == [kind |-> "ok", rec |-> r]
ErrorRecord(e)  == [kind |-> "error", err |-> e]

\* mutant of IsRetryable: too-many-requests is retried as well
IsRetryableAlsoTooMany(e) == e \in RetryableErrors \cup {"TooManyRequestsError"}

\* the errors.As switch of processEmbedModel: the three retryable classes
IsRetryable(e) == e \in RetryableErrors

\* mutant of ShouldRetry: off by one, retries while attempt <= count
ShouldRetryInclusive(att, count) == Half(att) <= count

\* the retry decision of processEmbedModel: attempt < p.config.BackoffRetryCount
ShouldRetry(att, count) == Half(att) < count

(***************************************************************************)
(* backoff.Backoff (github.com/jpillora/backoff), built by Configure from  *)
(* the factor, min and max of the configuration.  Attempt() reads the      *)
(* counter, Duration() returns the delay of the current attempt and        *)
(* increments the counter, Reset() zeroes it.                              *)
(***************************************************************************)
RECURSIVE Pow(_, _)
Pow(b, k) == IF k = 0 THEN 1 ELSE b * Pow(b, k - 1)

Min2(a, b) == IF a <= b THEN a ELSE b

\* mutant of NewBackoff: Min and Max are swapped
NewBackoffSwapped(c) ==
    [Factor |-> c.BackoffRetryFactor, Min |-> c.BackoffRetryMax, Max |-> c.BackoffRetryMin]

\* &backoff.Backoff{Factor: ..., Min: ..., Max: ...} of Configure
NewBackoff(c) ==
    [Factor |-> c.BackoffRetryFactor, Min |-> c.BackoffRetryMin, Max |-> c.BackoffRetryMax]

\* the delay of attempt k: min(Max, Min * Factor^k); Factor counts halves
ForAttempt(b, k) == Min2(b.Max, (b.Min * Pow(b.Factor, k)) \div Pow(2, k))

(***************************************************************************)
(* Processor.setField: resolves the response path on the record and        *)
(* assigns the data.  `res` is the outcome of Resolve / Set.               *)
(***************************************************************************)
NewReferenceResolver(path) == [path |-> path]

\* mutant of setField: the resolved reference is never assigned
setFieldDropsData(r, ref, data, res) ==
    IF ref = Nil THEN [rec |-> r, err |-> ""]
    ELSE IF res = "error reference resolver" THEN [rec |-> r, err |-> res]
    ELSE [rec |-> r, err |-> ""]

setField(r, ref, data, res) ==
    IF ref = Nil THEN [rec |-> r, err |-> ""]
    ELSE IF res = "error reference resolver" THEN [rec |-> r, err |-> res]
    ELSE IF res = "error reference set" THEN [rec |-> r, err |-> res]
    ELSE [rec |-> IF ref.path = ".Payload.After" THEN [r EXCEPT !.After = data]
                  ELSE [r EXCEPT !.Key = data],
          err |-> ""]

\* mutant of WrapWriteErr: the write error is passed on unwrapped
WrapWriteErrBare(e) == e

\* fmt.Errorf("failed setting response body: %w", err)
WrapWriteErr(e) == "failed setting response body: " \o e

(***************************************************************************)
(* Initial state: a processor made by NewProcessor, not yet configured.    *)
(***************************************************************************)
Init ==
    /\ phase = "new"
    /\ rawCfg = Nil
    /\ config = Nil
    /\ cfgErr = NoErr
    /\ attempt = 0
    /\ pc = "idle"
    /\ records = <<>>
    /\ idx = 0
    /\ record = Nil
    /\ out = <<>>
    /\ duration = 0
    /\ ctxDone = FALSE
    /\ timerFired = FALSE
    /\ calls = 0
    /\ waits = <<>>
    /\ okCalls = 0
    /\ startAttempt = 0
    /\ last = "none"
    /\ lastOutcome = Nil
    /\ invocations = 0
    /\ totalCalls = 0
    /\ waitsSinceOk = 0
    /\ delays = <<>>
    /\ firstDelay = 0

(***************************************************************************)
(* Processor.Configure: parse, validate, build the response resolver, the  *)
(* client and the backoff state.                                           *)
(***************************************************************************)
Configure(raw) ==
    /\ phase = "new"
    /\ rawCfg' = raw
    /\ LET p == ParseConfig(raw)
           v == Validate(p.cfg)
       IN  IF p.err # NoErr
           THEN /\ phase' = "rejected"
                /\ cfgErr' = p.err
                /\ config' = Nil
           ELSE IF v # NoErr
           THEN /\ phase' = "rejected"
                /\ cfgErr' = v
                /\ config' = p.cfg
           ELSE /\ phase' = "configured"
                /\ cfgErr' = NoErr
                /\ config' = p.cfg
    /\ attempt' = 0
    /\ UNCHANGED <<pc, records, idx, record, out, duration, ctxDone, timerFired,
                   histVars, last, invocations>>

\* Processor.responseBodyRef, set by Configure from config.ResponseBodyRef
responseBodyRef ==
    IF phase = "configured" THEN NewReferenceResolver(config.ResponseBodyRef) ELSE Nil

(***************************************************************************)
(* Processor.Process: dispatch on the configured model.  Each branch       *)
(* enters its handler: out is empty, the loop over the batch takes the     *)
(* first record (or the handler returns out at once for an empty batch).   *)
(* An unknown model is logged and the empty list returned.                 *)
(***************************************************************************)
\* mutant of Handler: the default branch falls into the embed handler
HandlerDefaultEmbed(model) ==
    CASE model = CommandModel -> "Chat"
      [] model = EmbedModel   -> "Calling"
      [] model = RerankModel  -> "Rerank"
      [] OTHER                -> "Calling"

\* the switch of Process: where the handler of the model starts, "none" for the
\* default branch
Handler(model) ==
    CASE model = CommandModel -> "Chat"
      [] model = EmbedModel   -> "Calling"
      [] model = RerankModel  -> "Rerank"
      [] OTHER                -> "none"

\* mutant of StartProcess: a nil EmbedConfig is replaced by an empty one in p.config
StartProcessFillsEmbedConfig(batch) ==
    /\ phase = "configured"
    /\ pc \in {"idle", "done"}
    /\ invocations < MaxInvocations
    /\ invocations' = invocations + 1
    /\ records' = batch
    /\ out' = <<>>
    /\ IF Handler(config.Model) # "none" /\ Len(batch) > 0
       THEN /\ pc' = Handler(config.Model)
            /\ idx' = 1
            /\ record' = batch[1]
       ELSE /\ pc' = "done"
            /\ idx' = 0
            /\ record' = Nil
    /\ duration' = 0
    /\ ctxDone' = FALSE
    /\ timerFired' = FALSE
    /\ calls' = 0
    /\ waits' = <<>>
    /\ okCalls' = 0
    /\ startAttempt' = attempt
    /\ last' = "start"
    /\ lastOutcome' = Nil
    /\ totalCalls' = 0
    /\ config' = IF config.EmbedConfig = Nil
                  THEN [config EXCEPT !.EmbedConfig = [InputType |-> "", EmbeddingTypes |-> <<>>]]
                  ELSE config
    /\ UNCHANGED <<phase, rawCfg, cfgErr, attempt, waitsSinceOk, delays, firstDelay>>

StartProcess(batch) ==
    /\ phase = "configured"
    /\ pc \in {"idle", "done"}
    /\ invocations < MaxInvocations
    /\ invocations' = invocations + 1
    /\ records' = batch
    /\ out' = <<>>
    /\ IF Handler(config.Model) # "none" /\ Len(batch) > 0
       THEN /\ pc' = Handler(config.Model)
            /\ idx' = 1
            /\ record' = batch[1]
       ELSE /\ pc' = "done"
            /\ idx' = 0
            /\ record' = Nil
    /\ duration' = 0
    /\ ctxDone' = FALSE
    /\ timerFired' = FALSE
    /\ calls' = 0
    /\ waits' = <<>>
    /\ okCalls' = 0
    /\ startAttempt' = attempt
    /\ last' = "start"
    /\ lastOutcome' = Nil
    /\ totalCalls' = 0
    /\ UNCHANGED <<cfgVars, attempt, waitsSinceOk, delays, firstDelay>>

(***************************************************************************)
(* One pass of the loop of processCommandModel: one V2.Chat call for the   *)
(* record, then either return append(out, ErrorRecord) (vendor error or    *)
(* setField error) or append the record and go on to the next record; the  *)
(* handler returns out after the last one.  `o` is what V2.Chat returned,  *)
(* `w` the outcome of the response-field write.                            *)
(***************************************************************************)
\* mutant of ChatCall: after a vendor error the loop goes on to the next record
ChatCallGoesOnAfterError(o, w) ==
    /\ pc = "Chat"
    /\ totalCalls' = totalCalls + 1
    /\ lastOutcome' = [resp |-> o.resp, err |-> o.err, write |-> IF o.err = "" THEN w ELSE ""]
    /\ LET set == setField(record, responseBodyRef, o.resp, w)
       IN  IF o.err # ""
           THEN /\ out' = Append(out, ErrorRecord(o.err))
                /\ last' = "fatal"
                /\ calls' = 1
                /\ okCalls' = 0
                /\ IF idx < Len(records)
                   THEN /\ pc' = "Chat"
                        /\ idx' = idx + 1
                        /\ record' = records[idx + 1]
                   ELSE /\ pc' = "done"
                        /\ UNCHANGED <<idx, record>>
           ELSE IF set.err # ""
           THEN /\ pc' = "done"
                /\ out' = Append(out, ErrorRecord(WrapWriteErr(set.err)))
                /\ last' = "writeFailed"
                /\ calls' = 1
                /\ okCalls' = 1
                /\ UNCHANGED <<idx, record>>
           ELSE /\ out' = Append(out, SingleRecord(set.rec))
                /\ last' = "success"
                /\ IF idx < Len(records)
                   THEN /\ pc' = "Chat"
                        /\ idx' = idx + 1
                        /\ record' = records[idx + 1]
                        /\ calls' = 0
                        /\ okCalls' = 0
                   ELSE /\ pc' = "done"
                        /\ idx' = idx
                        /\ record' = set.rec
                        /\ calls' = 1
                        /\ okCalls' = 1
    /\ UNCHANGED <<cfgVars, attempt, records, duration, ctxDone, timerFired, waits,
                   startAttempt, invocations, waitsSinceOk, delays, firstDelay>>

ChatCall(o, w) ==
    /\ pc = "Chat"
    /\ totalCalls' = totalCalls + 1
    /\ lastOutcome' = [resp |-> o.resp, err |-> o.err, write |-> IF o.err = "" THEN w ELSE ""]
    /\ LET set == setField(record, responseBodyRef, o.resp, w)
       IN  IF o.err # ""
           THEN /\ pc' = "done"
                /\ out' = Append(out, ErrorRecord(o.err))
                /\ last' = "fatal"
                /\ calls' = 1
                /\ okCalls' = 0
                /\ UNCHANGED <<idx, record>>
           ELSE IF set.err # ""
           THEN /\ pc' = "done"
                /\ out' = Append(out, ErrorRecord(WrapWriteErr(set.err)))
                /\ last' = "writeFailed"
                /\ calls' = 1
                /\ okCalls' = 1
                /\ UNCHANGED <<idx, record>>
           ELSE /\ out' = Append(out, SingleRecord(set.rec))
                /\ last' = "success"
                /\ IF idx < Len(records)
                   THEN /\ pc' = "Chat"
                        /\ idx' = idx + 1
                        /\ record' = records[idx + 1]
                        /\ calls' = 0
                        /\ okCalls' = 0
                   ELSE /\ pc' = "done"
                        /\ idx' = idx
                        /\ record' = set.rec
                        /\ calls' = 1
                        /\ okCalls' = 1
    /\ UNCHANGED <<cfgVars, attempt, records, duration, ctxDone, timerFired, waits,
                   startAttempt, invocations, waitsSinceOk, delays, firstDelay>>

(***************************************************************************)
(* One pass of the loop of processRerankModel: the same steps as the       *)
(* command handler, with the rerank endpoint.                              *)
(***************************************************************************)
RerankCall(o, w) ==
    /\ pc = "Rerank"
    /\ totalCalls' = totalCalls + 1
    /\ lastOutcome' = [resp |-> o.resp, err |-> o.err, write |-> IF o.err = "" THEN w ELSE ""]
    /\ LET set == setField(record, responseBodyRef, o.resp, w)
       IN  IF o.err # ""
           THEN /\ pc' = "done"
                /\ out' = Append(out, ErrorRecord(o.err))
                /\ last' = "fatal"
                /\ calls' = 1
                /\ okCalls' = 0
                /\ UNCHANGED <<idx, record>>
           ELSE IF set.err # ""
           THEN /\ pc' = "done"
                /\ out' = Append(out, ErrorRecord(WrapWriteErr(set.err)))
                /\ last' = "writeFailed"
                /\ calls' = 1
                /\ okCalls' = 1
                /\ UNCHANGED <<idx, record>>
           ELSE /\ out' = Append(out, SingleRecord(set.rec))
                /\ last' = "success"
                /\ IF idx < Len(records)
                   THEN /\ pc' = "Rerank"
                        /\ idx' = idx + 1
                        /\ record' = records[idx + 1]
                        /\ calls' = 0
                        /\ okCalls' = 0
                   ELSE /\ pc' = "done"
                        /\ idx' = idx
                        /\ record' = set.rec
                        /\ calls' = 1
                        /\ okCalls' = 1
    /\ UNCHANGED <<cfgVars, attempt, records, duration, ctxDone, timerFired, waits,
                   startAttempt, invocations, waitsSinceOk, delays, firstDelay>>

(***************************************************************************)
(* One pass of the inner loop of processEmbedModel, from the vendor call   *)
(* to the next point where the handler blocks or returns.  `o` is what     *)
(* V2.Embed returned, `w` the outcome of the response-field write.         *)
(*   - Attempt() and Duration() are called after every vendor call, so the *)
(*     counter is incremented whatever the call returned;                  *)
(*   - a retryable error with attempt < backoffRetryCount enters the       *)
(*     select on ctx.Done() and time.After(duration);                      *)
(*   - any other error returns append(out, ErrorRecord);                   *)
(*   - on success the counter is reset, the field is set, the record is    *)
(*     appended, and the inner `for` goes round again: it has no break, so *)
(*     the same record is sent to the vendor once more.                    *)
(***************************************************************************)
EmbedCall(o, w) ==
    /\ pc = "Calling"
    /\ calls < MaxCalls
    /\ calls' = calls + 1
    /\ totalCalls' = totalCalls + 1
    /\ lastOutcome' = [resp |-> o.resp, err |-> o.err, write |-> IF o.err = "" THEN w ELSE ""]
    /\ LET att == attempt
           dur == ForAttempt(NewBackoff(config), attempt)
           set == setField(record, responseBodyRef, o.resp, w)
       IN  /\ duration' = dur
           /\ delays' = IF o.err = "" THEN <<>> ELSE Append(delays, dur)
           /\ firstDelay' = IF firstDelay = 0 THEN dur ELSE firstDelay
           /\ waitsSinceOk' =
                 IF o.err = "" THEN 0
                 ELSE IF IsRetryable(o.err) /\ ShouldRetry(att, config.BackoffRetryCount)
                      THEN waitsSinceOk + 1
                      ELSE waitsSinceOk
           /\ IF o.err # ""
              THEN IF IsRetryable(o.err)
                   THEN IF ShouldRetry(att, config.BackoffRetryCount)
                        THEN /\ pc' = "RetryWait"
                             /\ waits' = Append(waits, dur)
                             /\ out' = out
                             /\ last' = "retry"
                             /\ attempt' = attempt + 1
                             /\ UNCHANGED <<record, okCalls>>
                        ELSE /\ pc' = "done"
                             /\ out' = Append(out, ErrorRecord(o.err))
                             /\ last' = "exhausted"
                             /\ attempt' = attempt + 1
                             /\ UNCHANGED <<record, okCalls, waits>>
                   ELSE /\ pc' = "done"
                        /\ out' = Append(out, ErrorRecord(o.err))
                        /\ last' = "fatal"
                        /\ attempt' = attempt + 1
                        /\ UNCHANGED <<record, okCalls, waits>>
              ELSE /\ attempt' = 0
                   /\ okCalls' = okCalls + 1
                   /\ IF set.err # ""
                      THEN /\ pc' = "done"
                           /\ out' = Append(out, ErrorRecord(WrapWriteErr(set.err)))
                           /\ last' = "writeFailed"
                           /\ UNCHANGED <<record, waits>>
                      ELSE /\ pc' = "Calling"
                           /\ record' = set.rec
                           /\ out' = Append(out, SingleRecord(set.rec))
                           /\ last' = "success"
                           /\ UNCHANGED waits
    /\ timerFired' = FALSE
    /\ UNCHANGED <<cfgVars, records, idx, ctxDone, startAttempt, invocations>>

\* the context of the running invocation is cancelled
Cancel ==
    /\ pc \in {"Calling", "RetryWait"}
    /\ ~ctxDone
    /\ ctxDone' = TRUE
    /\ UNCHANGED <<cfgVars, attempt, pc, records, idx, record, out, duration, timerFired,
                   histVars, last, invocations>>

\* the timer of time.After(duration) fires
TimerFire ==
    /\ pc = "RetryWait"
    /\ ~timerFired
    /\ timerFired' = TRUE
    /\ UNCHANGED <<cfgVars, attempt, pc, records, idx, record, out, duration, ctxDone,
                   histVars, last, invocations>>

\* mutant of SelectCtxDone: cancellation ends the wait but the loop goes on
SelectCtxDoneContinue ==
    /\ pc = "RetryWait"
    /\ ctxDone
    /\ pc' = "Calling"
    /\ last' = "cancelled"
    /\ UNCHANGED <<cfgVars, attempt, records, idx, record, out, duration, ctxDone,
                   timerFired, histVars, invocations>>

\* mutant of SelectCtxDone: the error result is appended but the loop goes on
SelectCtxDoneAppendAndGoOn ==
    /\ pc = "RetryWait"
    /\ ctxDone
    /\ pc' = "Calling"
    /\ out' = Append(out, ErrorRecord(CtxErr))
    /\ last' = "cancelled"
    /\ UNCHANGED <<cfgVars, attempt, records, idx, record, duration, ctxDone, timerFired,
                   histVars, invocations>>

\* select, case <-ctx.Done(): return append(out, ErrorRecord{ctx.Err()})
SelectCtxDone ==
    /\ pc = "RetryWait"
    /\ ctxDone
    /\ pc' = "done"
    /\ out' = Append(out, ErrorRecord(CtxErr))
    /\ last' = "cancelled"
    /\ UNCHANGED <<cfgVars, attempt, records, idx, record, duration, ctxDone, timerFired,
                   histVars, invocations>>

\* select, case <-time.After(duration): continue
SelectTimer ==
    /\ pc = "RetryWait"
    /\ timerFired
    /\ pc' = "Calling"
    /\ last' = "waited"
    /\ UNCHANGED <<cfgVars, attempt, records, idx, record, out, duration, ctxDone,
                   timerFired, histVars, invocations>>

Next ==
    \/ \E raw \in RawConfigs : Configure(raw)
    \/ \E batch \in Batches : StartProcess(batch)
    \/ \E o \in VendorOutcomes, w \in FieldOutcomes : EmbedCall(o, w)
    \/ \E o \in ChatOutcomes, w \in FieldOutcomes : ChatCall(o, w)
    \/ \E o \in ChatOutcomes, w \in FieldOutcomes : RerankCall(o, w)
    \/ Cancel
    \/ TimerFire
    \/ SelectCtxDone
    \/ SelectTimer

Spec == Init /\ [][Next]_vars

(***************************************************************************)
(* The backoff policy on its own: the backoff.Backoff that Configure       *)
(* builds, driven by direct calls of Duration() and Reset().               *)
(***************************************************************************)
ConfigurePolicy == \E raw \in PolicyFamily : Configure(raw)

\* p.backoffCfg.Duration(): the delay of the current attempt; the counter goes up
BackoffDuration ==
    /\ phase = "configured"
    /\ pc = "idle"
    /\ Len(delays) < MaxDelayCalls
    /\ duration' = ForAttempt(NewBackoff(config), attempt)
    /\ attempt' = attempt + 1
    /\ delays' = Append(delays, duration')
    /\ firstDelay' = IF firstDelay = 0 THEN duration' ELSE firstDelay
    /\ last' = IF last \in {"reset", "afterReset"} THEN "afterReset" ELSE "delay"
    /\ UNCHANGED <<cfgVars, pc, records, idx, record, out, ctxDone, timerFired, calls,
                   waits, okCalls, startAttempt, lastOutcome, invocations, totalCalls,
                   waitsSinceOk>>

\* p.backoffCfg.Reset()
BackoffReset ==
    /\ phase = "configured"
    /\ pc = "idle"
    /\ delays # <<>>
    /\ attempt' = 0
    /\ delays' = <<>>
    /\ last' = "reset"
    /\ UNCHANGED <<cfgVars, pc, records, idx, record, out, duration, ctxDone, timerFired,
                   calls, waits, okCalls, startAttempt, lastOutcome, invocations,
                   totalCalls, waitsSinceOk, firstDelay>>

NextBackoff ==
    \/ ConfigurePolicy
    \/ BackoffDuration
    \/ BackoffReset

BackoffSpec == Init /\ [][NextBackoff]_vars

TypeOK ==
    /\ phase \in {"new", "configured", "rejected"}
    /\ pc \in {"idle", "Calling", "RetryWait", "Chat", "Rerank", "done"}
    /\ attempt \in Nat
    /\ calls \in 0..MaxCalls
    /\ totalCalls \in Nat
    /\ waitsSinceOk \in Nat
    /\ invocations \in 0..MaxInvocations

(***************************************************************************)
(* Properties.                                                             *)
(***************************************************************************)
EmbedRunning == phase = "configured" /\ config.Model = EmbedModel /\ pc # "idle"

ErrorIdx(s) == {i \in 1..Len(s) : s[i].kind = "error"}
FirstErrorIdx(s) == CHOOSE i \in ErrorIdx(s) : \A j \in ErrorIdx(s) : i <= j

\* the result at index i is the success result of the i-th input record
SuccessOf(s, i) == s[i].kind = "ok" /\ s[i].rec.Position = records[i].Position

\* a vendor call returned in this step
EmbedReturned == pc = "Calling" /\ calls' = calls + 1

\* C1: for every batch handed to Process with model 'embed' the returned list is
\* never longer than the batch; without a failure it holds one success result per
\* input record in input order; if record i (0-based) is the first to fail it has
\* length i+1: the success results of records 0..i-1, then the error result.
C1_ResultNeverLongerThanBatch ==
    EmbedRunning =>
        /\ Len(out) <= Len(records)
        /\ pc = "done" =>
              IF ErrorIdx(out) = {}
              THEN /\ Len(out) = Len(records)
                   /\ \A i \in 1..Len(out) : SuccessOf(out, i)
              ELSE /\ Len(out) = FirstErrorIdx(out)
                   /\ \A i \in 1..(Len(out) - 1) : SuccessOf(out, i)

\* the delay the policy prescribes before retry k+1: min(max, min * factor^k)
ExpectedDelay(k) ==
    LET d == (config.BackoffRetryMin * Pow(config.BackoffRetryFactor, k)) \div Pow(2, k)
    IN  IF d > config.BackoffRetryMax THEN config.BackoffRetryMax ELSE d

\* every vendor call made so far for the current record failed with a retryable
\* error, no wait was cancelled, and the record started with a fresh backoff state
OnlyRetryableFailures ==
    /\ EmbedRunning
    /\ config.BackoffRetryCount % 2 = 0      \* a whole number of retries
    /\ startAttempt = 0
    /\ okCalls = 0
    /\ calls > 0
    /\ last \in {"retry", "waited", "exhausted"}

\* C2: from a fresh backoff state with backoffRetryCount = N, if every vendor call
\* for a record fails with a retryable error the handler makes exactly N+1 calls,
\* waits min(max, min * factor^k) before retry k+1 (k = 0..N-1), and then emits one
\* error result carrying the vendor error.
C2_RetryableFailureMakesNPlusOneCalls ==
    OnlyRetryableFailures =>
        LET N == config.BackoffRetryCount \div 2 IN
        /\ calls <= N + 1
        /\ Len(waits) = (IF calls <= N THEN calls ELSE N)
        /\ \A k \in 1..Len(waits) : waits[k] = ExpectedDelay(k - 1)
        /\ pc = "RetryWait" => calls <= N /\ duration = ExpectedDelay(calls - 1)
        /\ pc = "done" <=> calls = N + 1
        /\ pc = "done" =>
              /\ out = <<ErrorRecord(lastOutcome.err)>>
              /\ lastOutcome.err \in
                    {"GatewayTimeoutError", "InternalServerError", "ServiceUnavailableError"}

\* witness of C2: backoffRetryCount = 2, three calls, the waits 100ms and the capped 150ms
C2_Witness ==
    /\ OnlyRetryableFailures
    /\ pc = "done"
    /\ config.BackoffRetryCount = Half(2)
    /\ calls = 3
    /\ waits = <<100, 150>>
    /\ Len(out) = 1

\* the vendor call that returned in this step failed with a non-retryable error
NonRetryableFailure ==
    /\ EmbedReturned
    /\ lastOutcome'.err # ""
    /\ lastOutcome'.err \notin
          {"GatewayTimeoutError", "InternalServerError", "ServiceUnavailableError"}

\* C3: a non-retryable vendor error makes the handler emit exactly one error result
\* for the record, with no wait and no further vendor call for that record or any
\* later record of the batch, whatever backoffRetryCount is.
C3_NonRetryableFailsAtOnce ==
    [][ /\ NonRetryableFailure =>
              /\ pc' = "done"
              /\ out' = Append(out, ErrorRecord(lastOutcome'.err))
              /\ Cardinality(ErrorIdx(out')) = 1
              /\ waits' = waits
        /\ (pc = "done" /\ invocations' = invocations) =>
              /\ pc' = "done"
              /\ calls' = calls
              /\ waits' = waits
              /\ out' = out ]_vars

\* witness of C3: a non-retryable error with retries configured and a later record in the batch
C3_Witness ==
    /\ EmbedRunning
    /\ pc = "done"
    /\ lastOutcome # Nil
    /\ lastOutcome.err = "BadRequestError"
    /\ config.BackoffRetryCount = Half(2)
    /\ Len(records) = 2
    /\ out[Len(out)] = ErrorRecord("BadRequestError")
    /\ waits = <<>>

LastIsCtxErr ==
    /\ Len(out) > 0
    /\ out[Len(out)].kind = "error"
    /\ out[Len(out)].err = "context canceled"

\* C4: if cancellation is signalled while the handler is in RetryWait, before the
\* wait elapses, the handler leaves the wait with an error result carrying the
\* cancellation error for the current record, makes no further vendor call and
\* returns without processing the rest of the batch; if the wait elapses without
\* cancellation it returns to Calling for the same record.
C4_CancelDuringRetryWait ==
    [][ /\ pc = "RetryWait" =>
              /\ (ctxDone /\ ~timerFired /\ pc' # pc) =>
                    /\ pc' = "done"
                    /\ out' = Append(out, ErrorRecord("context canceled"))
                    /\ calls' = calls
              /\ (~ctxDone /\ timerFired /\ pc' # pc) =>
                    /\ pc' = "Calling"
                    /\ idx' = idx
                    /\ record' = record
                    /\ out' = out
                    /\ calls' = calls
              /\ (~ctxDone /\ ~timerFired) => pc' = pc
        /\ (pc = "done" /\ LastIsCtxErr /\ invocations' = invocations) =>
              /\ pc' = "done"
              /\ calls' = calls
              /\ out' = out ]_vars

\* witness of C4: the first wait elapsed and the record was called again, the second
\* wait was cancelled; the second record of the batch has no result
C4_Witness ==
    /\ EmbedRunning
    /\ pc = "done"
    /\ LastIsCtxErr
    /\ ~timerFired
    /\ calls = 2
    /\ Len(waits) = 2
    /\ Len(records) = 2
    /\ Len(out) = 1

\* C5: the backoff attempt counter is back at 0 after every success and after every
\* non-retryable failure, so it is 0 whenever the handler starts a record, also
\* the first record of an invocation that follows a failed invocation.
C5_CounterZeroAtRecordStart ==
    EmbedRunning =>
        /\ (pc = "Calling" /\ calls = 0) => attempt = 0
        /\ (/\ lastOutcome # Nil
            /\ lastOutcome.err \notin
                  {"GatewayTimeoutError", "InternalServerError", "ServiceUnavailableError"})
              => attempt = 0

\* the value at the configured response path of a record
FieldAt(r) == IF config.ResponseBodyRef = ".Payload.After" THEN r.After ELSE r.Key

\* the vendor call that returned in this step succeeded
VendorSuccess == EmbedReturned /\ lastOutcome'.err = ""

\* C6 as stated: whenever a vendor embed call succeeds the returned embeddings are
\* written into the record at the configured response path, the success result
\* carries the updated record, and the attempt counter is zero afterwards.
C6_SuccessAlwaysWritten ==
    [][ VendorSuccess =>
            /\ FieldAt(record') = lastOutcome'.resp
            /\ out' = Append(out, SingleRecord(record'))
            /\ attempt' = 0 ]_vars

\* C6 amended: whenever a vendor embed call succeeds the attempt counter is zero
\* afterwards (also after retries); if the response-field write succeeds the
\* returned embeddings are in the record at the configured response path and the
\* success result carries that updated record; if the write fails the record is
\* left as it was and an error result wrapping the write error is emitted instead.
C6_SuccessWrittenUnlessWriteFails ==
    [][ VendorSuccess =>
            /\ attempt' = 0
            /\ IF lastOutcome'.write = ""
               THEN /\ FieldAt(record') = lastOutcome'.resp
                    /\ record'.Position = record.Position
                    /\ out' = Append(out, SingleRecord(record'))
               ELSE /\ record' = record
                    /\ out' = Append(out, ErrorRecord("failed setting response body: "
                                                        \o lastOutcome'.write))
                    /\ pc' = "done" ]_vars

\* witness of C6: a success after a retry wait, the embeddings in the record and in
\* the success result, the counter back at zero
C6_Witness ==
    /\ EmbedRunning
    /\ last = "success"
    /\ Len(waits) >= 1
    /\ attempt = 0
    /\ lastOutcome.resp = "e2"
    /\ FieldAt(record) = "e2"
    /\ out[Len(out)] = SingleRecord(record)

\* Configure got past parsing with model 'embed': validation has run on `config`
EmbedValidated ==
    /\ phase # "new"
    /\ config # Nil
    /\ config.Model = <<"e", "m", "b", "e", "d">>

HasV3 == Contains(config.ModelVersion, <<"v", "3">>)

\* C7: for every configuration with model 'embed' validation fails if embedConfig is
\* null, or embeddingTypes is empty, or modelVersion contains 'v3' and inputType is
\* empty, or an embeddingTypes entry is outside {float, int8, uint8, binary, ubinary}.
C7_EmbedValidationFails ==
    EmbedValidated =>
        LET ec == config.EmbedConfig IN
        (\/ ec = Nil
         \/ Len(ec.EmbeddingTypes) = 0
         \/ HasV3 /\ ec.InputType = ""
         \/ \E i \in 1..Len(ec.EmbeddingTypes) :
               ec.EmbeddingTypes[i] \notin {"float", "int8", "uint8", "binary", "ubinary"})
        => /\ phase = "rejected"
           /\ cfgErr.stage = "validate"
           /\ ValidateInline(config) # NoErr

\* witness of C7: an embed-v3 configuration with a valid embeddingTypes list and no
\* inputType has been rejected
C7_Witness ==
    /\ EmbedValidated
    /\ phase = "rejected"
    /\ HasV3
    /\ config.EmbedConfig # Nil
    /\ config.EmbedConfig.InputType = ""
    /\ config.EmbedConfig.EmbeddingTypes = <<"float">>

\* the rules of an embed configuration in the order they are checked: which are violated
RuleViolated(c) ==
    LET ec == c.EmbedConfig IN
    << ~Contains(c.ModelVersion, <<"e", "m", "b", "e", "d">>),
       ec = Nil,
       ec # Nil /\ Contains(c.ModelVersion, <<"v", "3">>)
          /\ (ec.InputType = ""
              \/ ec.InputType \notin {"search_document", "search_query", "classification",
                                      "clustering", "image"}),
       ec # Nil /\ Len(ec.EmbeddingTypes) = 0,
       ec # Nil /\ \E i \in 1..Len(ec.EmbeddingTypes) :
                       ec.EmbeddingTypes[i] \notin {"float", "int8", "uint8", "binary", "ubinary"} >>

RuleText ==
    << "modelVersion does not belong to provided model",
       "embedConfig is required when model is 'embed'",
       "invalid or missing inputType for v3 models",
       "atleast one embeddingType must be provided",
       "invalid embeddingType" >>

\* C8: validation of an embed configuration reports exactly one error, that of the
\* first violated rule, the rules being checked in the order: modelVersion contains
\* 'embed'; embedConfig present; for a 'v3' version inputType non-empty and allowed;
\* embeddingTypes non-empty; every embeddingTypes entry allowed.
C8_FirstViolatedRuleReported ==
    EmbedValidated =>
        LET v == {i \in 1..5 : RuleViolated(config)[i]} IN
        IF v = {}
        THEN phase = "configured" /\ cfgErr = NoErr
        ELSE /\ phase = "rejected"
             /\ cfgErr.stage = "validate"
             /\ cfgErr.text = RuleText[CHOOSE i \in v : \A j \in v : i <= j]

\* witness of C8: 'embed-v3' with an invalid inputType and no embeddingTypes is
\* rejected with the inputType error
C8_Witness ==
    /\ EmbedValidated
    /\ HasV3
    /\ config.EmbedConfig # Nil
    /\ config.EmbedConfig.InputType = "invalid"
    /\ config.EmbedConfig.EmbeddingTypes = <<>>
    /\ cfgErr = ValErr("invalid or missing inputType for v3 models", <<"invalid">>)

\* C9 as stated: every accepted configuration has embedConfig non-null when model
\* is 'embed' and null when model is any other family.
C9_EmbedConfigOnlyForEmbed ==
    phase = "configured" =>
        (config.Model = <<"e", "m", "b", "e", "d">> <=> config.EmbedConfig # Nil)

\* C9 amended: every accepted configuration has embedConfig non-null when model is
\* 'embed'; for any other model validation does not look at embedConfig, which is
\* null exactly when the configuration supplies no embedConfig key.
C9_EmbedConfigPresentForEmbed ==
    phase = "configured" =>
        IF config.Model = <<"e", "m", "b", "e", "d">>
        THEN config.EmbedConfig # Nil
        ELSE config.EmbedConfig = Nil
                <=> (rawCfg.inputType = NoKey /\ rawCfg.embeddingTypes = NoKey)

\* witness of C9: an accepted 'command' configuration that supplied embedConfig keys
C9_Witness ==
    /\ phase = "configured"
    /\ config.Model = <<"c", "o", "m", "m", "a", "n", "d">>
    /\ config.EmbedConfig # Nil
    /\ rawCfg.inputType # NoKey

\* C10: every accepted configuration whose embedConfig.inputType is non-empty has
\* inputType in {search_document, search_query, classification, clustering, image},
\* whatever the modelVersion is (stated for the embed model, whose validation is
\* the one that looks at inputType).
C10_AcceptedInputTypeAllowed ==
    (/\ phase = "configured"
     /\ config.Model = <<"e", "m", "b", "e", "d">>
     /\ config.EmbedConfig # Nil
     /\ config.EmbedConfig.InputType # "")
        => config.EmbedConfig.InputType \in
              {"search_document", "search_query", "classification", "clustering", "image"}

\* the configured model is none of the three the switch of Process knows
UnknownModelRunning ==
    /\ phase = "configured"
    /\ config.Model \notin {<<"c", "o", "m", "m", "a", "n", "d">>, <<"e", "m", "b", "e", "d">>,
                            <<"r", "e", "r", "a", "n", "k">>}
    /\ pc # "idle"

\* C11: when the configured model is none of command, embed, rerank, Process
\* returns an empty result list for every batch (also a non-empty one), makes no
\* vendor call, writes no record field and leaves the backoff state unchanged.
C11_UnknownModelReturnsEmpty ==
    UnknownModelRunning =>
        /\ pc = "done"
        /\ out = <<>>
        /\ totalCalls = 0
        /\ lastOutcome = Nil
        /\ record = Nil
        /\ attempt = startAttempt
        /\ delays = <<>>

\* witness of C11: the second invocation of an unknown model returned the empty
\* list for a batch of two records
C11_Witness ==
    /\ UnknownModelRunning
    /\ pc = "done"
    /\ invocations = 2
    /\ Len(records) = 2
    /\ out = <<>>

\* C12: configuration parsing rejects every negative value of backoffRetry.count
\* and every zero or negative value of backoffRetry.factor, so in every configured
\* processor backoffRetryCount >= 0 and backoffRetryFactor > 0 (both counted in
\* halves here).
C12_NegativeCountAndNonPositiveFactorRejected ==
    phase # "new" =>
        /\ (rawCfg.count # NoKey /\ rawCfg.count[1] < 0) => phase = "rejected"
        /\ (rawCfg.factor # NoKey /\ rawCfg.factor[1] <= 0) => phase = "rejected"
        /\ phase = "configured" =>
              /\ config.BackoffRetryCount >= 0
              /\ config.BackoffRetryFactor > 0

\* every vendor call of the running embed invocation returned successfully and
\* the response field was written
AllCallsSucceeded ==
    /\ EmbedRunning
    /\ totalCalls > 0
    /\ okCalls = totalCalls
    /\ last = "success"

\* C13: Process with model 'embed' terminates for every finite batch: when every
\* vendor embed call returns successfully a batch of n records causes exactly n
\* vendor calls (one per record), after which Process returns; after a record
\* reaches Succeeded the handler moves on to the next record and never calls the
\* vendor again for the same record.
C13_OneCallPerRecordThenReturn ==
    AllCallsSucceeded =>
        /\ totalCalls <= Len(records)
        /\ Len(out) = totalCalls
        /\ IF totalCalls = Len(records) THEN pc = "done" ELSE idx = totalCalls + 1

CommandRunning ==
    phase = "configured" /\ config.Model = <<"c", "o", "m", "m", "a", "n", "d">> /\ pc # "idle"

\* the results 1..n of s are the success results of the first n records, in order
SuccessPrefix(s, n) == \A i \in 1..n : SuccessOf(s, i)

\* C14: the command handler makes exactly one vendor chat call per processed
\* record and never retries or waits; on the first failing record (vendor error
\* or response-field write error) it appends one error result and returns, so the
\* result is the success results of the preceding records in order followed by
\* that single error, and the remaining records get no result; if no record fails
\* the result has one success result per record in input order.
C14_CommandOneCallPerRecord ==
    CommandRunning =>
        /\ pc \in {"Chat", "done"}
        /\ totalCalls = Len(out)
        /\ waits = <<>>
        /\ attempt = 0
        /\ pc = "Chat" =>
              /\ idx = Len(out) + 1
              /\ idx <= Len(records)
              /\ SuccessPrefix(out, Len(out))
        /\ (pc = "done" /\ last \in {"fatal", "writeFailed"}) =>
              /\ Len(out) <= Len(records)
              /\ SuccessPrefix(out, Len(out) - 1)
              /\ out[Len(out)] =
                    ErrorRecord(IF lastOutcome.err # "" THEN lastOutcome.err
                                ELSE "failed setting response body: " \o lastOutcome.write)
        /\ (pc = "done" /\ last \notin {"fatal", "writeFailed"}) =>
              /\ Len(out) = Len(records)
              /\ SuccessPrefix(out, Len(out))

\* witness of C14: the second record of a batch of two fails with a vendor error
\* of a class the embed handler would retry; two calls were made
C14_Witness ==
    /\ CommandRunning
    /\ pc = "done"
    /\ Len(records) = 2
    /\ totalCalls = 2
    /\ Len(out) = 2
    /\ out[1].kind = "ok"
    /\ out[2] = ErrorRecord("GatewayTimeoutError")

\* in this step a vendor call of the embed or the command handler returned
\* successfully and resolving or assigning the response field failed
WriteFailedStep ==
    /\ pc \in {"Calling", "Chat"}
    /\ totalCalls' = totalCalls + 1
    /\ lastOutcome'.write # ""

\* C15: a failure to resolve or assign the response field on a record fails that
\* record only: the record gets an error result wrapping the write error, records
\* processed before it keep their success results, and the failure does not
\* prevent the other records of the batch from being processed.
C15_WriteFailureFailsThatRecordOnly ==
    [][ WriteFailedStep =>
            /\ out' = Append(out, ErrorRecord("failed setting response body: "
                                               \o lastOutcome'.write))
            /\ idx < Len(records) => pc' # "done" ]_vars

\* C15 amended: a failure to resolve or assign the response field on a record gives
\* the record an error result wrapping the write error, appended to the results
\* emitted before it, which are kept; the handler returns at once, so the records
\* after it are not processed and get no result.
C15_WriteFailureEndsBatch ==
    [][ /\ WriteFailedStep =>
              /\ out' = Append(out, ErrorRecord("failed setting response body: "
                                                 \o lastOutcome'.write))
              /\ pc' = "done"
              /\ idx' = idx
        /\ (pc = "done" /\ invocations' = invocations) =>
              /\ out' = out
              /\ totalCalls' = totalCalls ]_vars

\* witness of C15: the write fails on the first of two records of the command
\* handler; the handler has returned one error result and made one call
C15_Witness ==
    /\ CommandRunning
    /\ pc = "done"
    /\ last = "writeFailed"
    /\ Len(records) = 2
    /\ idx = 1
    /\ totalCalls = 1
    /\ out = <<ErrorRecord("failed setting response body: error reference set")>>

\* the delay the policy of the configuration prescribes for attempt k
PolicyDelay(k) ==
    LET d == (config.BackoffRetryMin * Pow(config.BackoffRetryFactor, k)) \div Pow(2, k)
    IN  IF d > config.BackoffRetryMax THEN config.BackoffRetryMax ELSE d

\* the delays returned since the counter was last zero are those of the policy:
\* min(max, min * factor^k) for k = 0..n-1, non-decreasing, at most max, one
\* counter step per call, and the first of them is the first delay ever returned
DelaysFollowPolicy ==
    /\ attempt = Len(delays)
    /\ \A k \in 1..Len(delays) :
          /\ delays[k] = PolicyDelay(k - 1)
          /\ delays[k] <= config.BackoffRetryMax
    /\ \A k \in 1..(Len(delays) - 1) : delays[k] <= delays[k + 1]
    /\ delays # <<>> => delays[1] = firstDelay

C17_ProcessLeavesConfigAlone ==
    [][ phase = "configured" =>
            /\ config' = config
            /\ phase' = phase
            /\ responseBodyRef' = responseBodyRef ]_vars

\* witness of C17: the second invocation of an embed processor has returned, the
\* backoff counter has moved, and the configuration is still the parsed one
C17_Witness ==
    /\ phase = "configured"
    /\ invocations = 2
    /\ pc = "done"
    /\ totalCalls > 0
    /\ attempt > startAttempt
    /\ config = ParseConfig(rawCfg).cfg

C19_AtMostOneErrorAndItIsLast ==
    (/\ phase = "configured"
     /\ config.Model \in {<<"e", "m", "b", "e", "d">>, <<"c", "o", "m", "m", "a", "n", "d">>})
        => /\ Cardinality(ErrorIdx(out)) <= 1
           /\ ErrorIdx(out) \subseteq {Len(out)}
           /\ \A i \in 1..(Len(out) - 1) : out[i].kind = "ok"
           /\ ErrorIdx(out) # {} => pc = "done"

\* witness of C19: the embed handler returned two success results followed by
\* one error result
C19_Witness ==
    /\ EmbedRunning
    /\ pc = "done"
    /\ Len(out) = 3
    /\ out[1].kind = "ok"
    /\ out[2].kind = "ok"
    /\ out[3].kind = "error"

====
